---- MODULE Spec2Model ----
(***************************************************************************)
(* A model of the CPU slicer of amislicer (src/src/cpu_slicer.rs):         *)
(* plane schedule, plane-triangle intersector, polygon assembler and the   *)
(* per-plane image emission of CPUSlicer::generate_slice_images.           *)
(*                                                                         *)
(* Numbers.  An f64 is modelled as an integer number of quanta; the        *)
(* tolerance 1e-6 of the source is `epsilon` quanta, so that values below, *)
(* at and above the tolerance all exist.  f64 additions and subtractions   *)
(* round to MantBits significant bits, ties to even (IEEE-754 binary64     *)
(* has 53): FAdd and FSub.  A result of a division or of a linear          *)
(* interpolation is rounded to the nearest quantum.  The inputs keep the   *)
(* order of the magnitudes of the program: rounding error well below       *)
(* epsilon, epsilon well below the slice thickness, the slice thickness    *)
(* below the size of the geometry.                                         *)
(***************************************************************************)
EXTENDS Integers, Sequences, FiniteSets, TLC

VARIABLES
    pc,                  \* position of the program
    self,                \* the CPUSlicer: pixel_x, pixel_y, slice_thickness, physical_x, physical_y
    triangles,           \* the merged triangle list
    min_z, max_z,        \* generate_slice_images: result of z_range
    z,                   \* generate_slice_images: the schedule loop's variable
    slice_z_values,      \* generate_slice_images: the plane schedule
    plane_idx,           \* index in the schedule of the current filter_map iteration
    plane_z,             \* the plane of the current filter_map iteration
    plane_log,           \* history: per plane processed, what the closure found
    intersection_points, \* result of intersect_triangle_with_plane on triangles[1]
    segments,            \* result of collect_intersection_segments
    point_coords,        \* assemble_polygons: key -> representative point
    adjacency,           \* assemble_polygons: key -> Vec of neighbour keys
    visited_edges,       \* assemble_polygons: HashSet of directed key pairs
    keys_left,           \* assemble_polygons: keys the outer for has not yet yielded
    start_key,           \* assemble_polygons: the outer for's current key
    next_idx,            \* assemble_polygons: index of the inner for in adjacency[start_key]
    polygon_keys,        \* assemble_polygons: keys of the walk in progress
    current_key,         \* assemble_polygons: the walk's current key
    polygons,            \* assemble_polygons: the returned loops (as points)
    walks,               \* history: every finished walk, with its outcome
    images               \* generate_slice_images: the images emitted so far

vars == <<pc, self, triangles, min_z, max_z, z, slice_z_values, plane_idx,
          plane_z, plane_log, intersection_points, segments, point_coords, adjacency, visited_edges,
          keys_left, start_key, next_idx, polygon_keys, current_key, polygons,
          walks, images>>

\* what the assembler never writes
outerVars == <<self, triangles, min_z, max_z, z, slice_z_values, plane_idx,
               plane_z, plane_log, intersection_points>>

\* the assembler's own state
assemblerVars == <<point_coords, adjacency, visited_edges, keys_left, start_key,
                   next_idx, polygon_keys, current_key, polygons, walks>>

---------------------------------------------------------------------------
(* Program constants and bounds *)

\* let epsilon = 1e-6, in quanta
epsilon == 16

\* f64::INFINITY: larger than every finite value of the model
INFINITY == 1048576

\* significant bits of the model's floating-point format
MantBits == 10

\* the schedule loop is followed for at most this many planes
MaxPlanes == 9

\* longest segment list handed to assemble_polygons on its own
MaxSegs == 3

\* most keys of a union of cycles handed to assemble_polygons
MaxKeys == 6

\* most loops of a plane handed to the rasterizer on its own
MaxLoops == 3

---------------------------------------------------------------------------
(* f64 arithmetic *)

Abs(x) == IF x < 0 THEN -x ELSE x

RECURSIVE Pow2(_)
Pow2(n) == IF n = 0 THEN 1 ELSE 2 * Pow2(n - 1)

\* the exponent of the unit in the last place of magnitude a
RECURSIVE ExpOf(_, _)
ExpOf(a, e) == IF a < Pow2(MantBits + e) THEN e ELSE ExpOf(a, e + 1)

\* round to nearest representable value, ties to the even mantissa
FRound(x) ==
    LET a   == Abs(x)
        q   == Pow2(ExpOf(a, 0))
        r   == a \div q
        rem == a % q
        m   == IF 2 * rem > q \/ (2 * rem = q /\ r % 2 = 1) THEN r + 1 ELSE r
    IN  IF x < 0 THEN -(m * q) ELSE m * q

FAdd(a, b) == FRound(a + b)

FSub(a, b) == FRound(a - b)

\* f64::round of num / den: nearest integer, halves away from zero
RoundDiv(num, den) ==
    LET n == IF den < 0 THEN -num ELSE num
        d == Abs(den)
        q == (2 * Abs(n) + d) \div (2 * d)
    IN  IF n < 0 THEN -q ELSE q

\* the values an f32 vertex coordinate can take: representable ones
IsFloat(x) == FRound(x) = x

---------------------------------------------------------------------------
(* Plane-triangle intersector *)

\* a.metric_distance(b) < epsilon, compared on the squares
MetricDistanceBelowEpsilon(a, b) ==
    (a[1] - b[1]) * (a[1] - b[1]) + (a[2] - b[2]) * (a[2] - b[2])
        + (a[3] - b[3]) * (a[3] - b[3]) < epsilon * epsilon

\* the comparator of intersections.sort_by: x, then y, then z
PointLess(a, b) ==
    \/ a[1] < b[1]
    \/ a[1] = b[1] /\ a[2] < b[2]
    \/ a[1] = b[1] /\ a[2] = b[2] /\ a[3] < b[3]

\* stable insertion of p into the sorted sequence s
RECURSIVE InsertPoint(_, _)
InsertPoint(p, s) ==
    IF s = <<>> THEN <<p>>
    ELSE IF PointLess(p, s[Len(s)]) THEN Append(InsertPoint(p, SubSeq(s, 1, Len(s) - 1)), s[Len(s)])
    ELSE Append(s, p)

RECURSIVE SortPoints(_)
SortPoints(s) ==
    IF s = <<>> THEN <<>>
    ELSE InsertPoint(s[Len(s)], SortPoints(SubSeq(s, 1, Len(s) - 1)))

\* Vec::dedup_by: an element is dropped when it matches the last element kept
RECURSIVE DedupFrom(_, _, _)
DedupFrom(s, i, out) ==
    IF i > Len(s) THEN out
    ELSE IF out # <<>> /\ MetricDistanceBelowEpsilon(s[i], out[Len(out)])
         THEN DedupFrom(s, i + 1, out)
         ELSE DedupFrom(s, i + 1, Append(out, s[i]))

\* no element is dropped
DedupPointsKeepingAll(s) == s

DedupPoints(s) == DedupFrom(s, 1, <<>>)

\* distances[i] = points[i][2] - plane_z
DistancesIgnoringPlane(triangle, pz) == [i \in 1..3 |-> triangle[i][3]]

Distances(triangle, pz) == [i \in 1..3 |-> FSub(triangle[i][3], pz)]

\* "if !(positive && negative) { return vec![]; }" passes these triangles
CrossesPlaneOnOneSide(d) ==
    (\E i \in 1..3 : d[i] > epsilon) \/ (\E i \in 1..3 : d[i] < -epsilon)

CrossesPlane(d) ==
    (\E i \in 1..3 : d[i] > epsilon) /\ (\E i \in 1..3 : d[i] < -epsilon)

\* p1 + (p2 - p1) * t with t = d1 / (d1 - d2)
Interpolate(p1, p2, d1, d2) ==
    [c \in 1..3 |-> p1[c] + RoundDiv((p2[c] - p1[c]) * d1, d1 - d2)]

\* the points one iteration of "for i in 0..3" pushes
EdgePoints(triangle, d, i) ==
    LET j  == (i % 3) + 1
        p1 == triangle[i]
        p2 == triangle[j]
        d1 == d[i]
        d2 == d[j]
    IN  IF (d1 > epsilon /\ d2 < -epsilon) \/ (d1 < -epsilon /\ d2 > epsilon)
            THEN <<Interpolate(p1, p2, d1, d2)>>
        ELSE IF Abs(d1) <= epsilon /\ Abs(d2) <= epsilon THEN <<p1, p2>>
        ELSE IF Abs(d1) <= epsilon THEN <<p1>>
        ELSE IF Abs(d2) <= epsilon THEN <<p2>>
        ELSE <<>>

intersect_triangle_with_plane(triangle, pz) ==
    LET d == Distances(triangle, pz)
    IN  IF ~CrossesPlane(d) THEN <<>>
        ELSE DedupPoints(SortPoints(
                EdgePoints(triangle, d, 1) \o EdgePoints(triangle, d, 2)
                    \o EdgePoints(triangle, d, 3)))

RECURSIVE CollectFrom(_, _, _, _)
CollectFrom(tris, pz, i, out) ==
    IF i > Len(tris) THEN out
    ELSE LET ip == intersect_triangle_with_plane(tris[i], pz)
         IN  CollectFrom(tris, pz, i + 1,
                         IF Len(ip) = 2 THEN Append(out, <<ip[1], ip[2]>>) ELSE out)

\* the loop over the triangles ends at the first triangle without 2 points
RECURSIVE CollectUntilOtherCount(_, _, _, _)
CollectUntilOtherCount(tris, pz, i, out) ==
    IF i > Len(tris) THEN out
    ELSE LET ip == intersect_triangle_with_plane(tris[i], pz)
         IN  IF Len(ip) = 2
             THEN CollectUntilOtherCount(tris, pz, i + 1, Append(out, <<ip[1], ip[2]>>))
             ELSE out

collect_until_other_count(tris, pz) == CollectUntilOtherCount(tris, pz, 1, <<>>)

collect_intersection_segments(tris, pz) == CollectFrom(tris, pz, 1, <<>>)

---------------------------------------------------------------------------
(* Polygon assembler *)

\* (p * scale).round() as i64 with scale = 1.0 / epsilon, for x and y
point_to_key(p) == <<RoundDiv(p[1], epsilon), RoundDiv(p[2], epsilon)>>

EmptyMap == [k \in {} |-> <<>>]

\* point_coords.entry(key).or_insert_with(|| p.clone())
OrInsert(m, key, p) == IF key \in DOMAIN m THEN m ELSE m @@ (key :> p)

\* adjacency.entry(key).or_default().push(other)
PushNeighbor(m, key, other) ==
    IF key \in DOMAIN m THEN [m EXCEPT ![key] = Append(@, other)]
    ELSE m @@ (key :> <<other>>)

\* the loop "for &(ref start, ref end) in segments"
RECURSIVE BuildCoords(_, _, _)
BuildCoords(segs, i, m) ==
    IF i > Len(segs) THEN m
    ELSE BuildCoords(segs, i + 1,
            OrInsert(OrInsert(m, point_to_key(segs[i][1]), segs[i][1]),
                     point_to_key(segs[i][2]), segs[i][2]))

RECURSIVE BuildAdjacencyMap(_, _, _)
BuildAdjacencyMap(segs, i, m) ==
    IF i > Len(segs) THEN m
    ELSE LET start_k == point_to_key(segs[i][1])
             end_k   == point_to_key(segs[i][2])
         IN  BuildAdjacencyMap(segs, i + 1,
                PushNeighbor(PushNeighbor(m, start_k, end_k), end_k, start_k))

\* visited_edges.contains(&(a, b)) || visited_edges.contains(&(b, a))
EdgeVisitedOneWay(visited, a, b) == <<a, b>> \in visited

EdgeVisited(visited, a, b) == <<a, b>> \in visited \/ <<b, a>> \in visited

\* the test of the walk's inner "for &neighbor_key in neighbors"
CanStepOneWay(keys, visited, cur, nb) ==
    nb # keys[Len(keys) - 1] /\ <<cur, nb>> \notin visited

CanStep(keys, visited, cur, nb) ==
    nb # keys[Len(keys) - 1] /\ ~EdgeVisited(visited, cur, nb)

\* index of the first neighbour the walk can step to, 0 when there is none
FirstStep(keys, visited, cur, neighbors) ==
    IF \E i \in 1..Len(neighbors) : CanStep(keys, visited, cur, neighbors[i])
    THEN CHOOSE i \in 1..Len(neighbors) :
            /\ CanStep(keys, visited, cur, neighbors[i])
            /\ \A j \in 1..(i - 1) : ~CanStep(keys, visited, cur, neighbors[j])
    ELSE 0

\* "if polygon_keys.len() >= 3 && current_key == start_key"
KeepsAnyWalk(keys, cur, start) == Len(keys) >= 3

KeepsWalk(keys, cur, start) == Len(keys) >= 3 /\ cur = start

\* the entry of assemble_polygons up to the traversal
BuildAdjacency ==
    /\ pc = "assemble"
    /\ point_coords' = BuildCoords(segments, 1, EmptyMap)
    /\ adjacency' = BuildAdjacencyMap(segments, 1, EmptyMap)
    /\ visited_edges' = {}
    /\ polygons' = <<>>
    /\ walks' = <<>>
    /\ keys_left' = DOMAIN adjacency'
    /\ pc' = "for_keys"
    /\ UNCHANGED <<outerVars, segments, start_key, next_idx,
                   polygon_keys, current_key, images>>

\* "for &start_key in adjacency.keys()": a HashMap yields its keys in any order
NextStartKey ==
    /\ pc = "for_keys"
    /\ \E k \in keys_left :
          /\ start_key' = k
          /\ keys_left' = keys_left \ {k}
    /\ next_idx' = 1
    /\ pc' = "for_neighbors"
    /\ UNCHANGED <<outerVars, segments, point_coords, adjacency,
                   visited_edges, polygon_keys, current_key, polygons, walks, images>>

\* the outer for is exhausted: assemble_polygons returns polygons
AssembleReturn ==
    /\ pc = "for_keys"
    /\ keys_left = {}
    /\ pc' = "assembled"
    /\ UNCHANGED <<outerVars, segments, point_coords, adjacency,
                   visited_edges, keys_left, start_key, next_idx, polygon_keys,
                   current_key, polygons, walks, images>>

\* "for &next_key in &adjacency[&start_key]" is exhausted
NeighborsExhausted ==
    /\ pc = "for_neighbors"
    /\ next_idx > Len(adjacency[start_key])
    /\ pc' = "for_keys"
    /\ UNCHANGED <<outerVars, segments, point_coords, adjacency,
                   visited_edges, keys_left, start_key, next_idx, polygon_keys,
                   current_key, polygons, walks, images>>

\* the edge (start_key, next_key) was visited: continue
SkipVisitedEdge ==
    /\ pc = "for_neighbors"
    /\ next_idx <= Len(adjacency[start_key])
    /\ EdgeVisited(visited_edges, start_key, adjacency[start_key][next_idx])
    /\ next_idx' = next_idx + 1
    /\ UNCHANGED <<pc, outerVars, segments, point_coords, adjacency,
                   visited_edges, keys_left, start_key, polygon_keys,
                   current_key, polygons, walks, images>>

\* a walk starts along the unvisited edge (start_key, next_key)
StartWalk ==
    /\ pc = "for_neighbors"
    /\ next_idx <= Len(adjacency[start_key])
    /\ LET next_key == adjacency[start_key][next_idx]
       IN  /\ ~EdgeVisited(visited_edges, start_key, next_key)
           /\ polygon_keys' = <<start_key>>
           /\ current_key' = next_key
           /\ visited_edges' = visited_edges \cup {<<start_key, next_key>>}
    /\ next_idx' = next_idx + 1
    /\ pc' = "walk"
    /\ UNCHANGED <<outerVars, segments, point_coords, adjacency,
                   keys_left, start_key, polygons, walks, images>>

\* one iteration of the walk's loop
WalkStep ==
    /\ pc = "walk"
    /\ LET keys == Append(polygon_keys, current_key)
           neighbors == adjacency[current_key]
           i == FirstStep(keys, visited_edges, current_key, neighbors)
       IN  /\ polygon_keys' = keys
           /\ IF i = 0
              THEN /\ pc' = "walk_end"
                   /\ UNCHANGED <<visited_edges, current_key>>
              ELSE /\ visited_edges' = visited_edges \cup {<<current_key, neighbors[i]>>}
                   /\ current_key' = neighbors[i]
                   /\ pc' = IF neighbors[i] = start_key THEN "walk_end" ELSE "walk"
    /\ UNCHANGED <<outerVars, segments, point_coords, adjacency,
                   keys_left, start_key, next_idx, polygons, walks, images>>

\* the walk closed with at least 3 keys: its polygon is pushed
KeepPolygon ==
    /\ pc = "walk_end"
    /\ KeepsWalk(polygon_keys, current_key, start_key)
    /\ polygons' = Append(polygons,
                          [i \in 1..Len(polygon_keys) |-> point_coords[polygon_keys[i]]])
    /\ walks' = Append(walks, [keys |-> polygon_keys, start |-> start_key,
                               last |-> current_key, kept |-> TRUE])
    /\ pc' = "for_neighbors"
    /\ UNCHANGED <<outerVars, segments, point_coords, adjacency,
                   visited_edges, keys_left, start_key, next_idx, polygon_keys,
                   current_key, images>>

\* the walk did not close (or is too short): nothing is pushed
DiscardChain ==
    /\ pc = "walk_end"
    /\ ~KeepsWalk(polygon_keys, current_key, start_key)
    /\ walks' = Append(walks, [keys |-> polygon_keys, start |-> start_key,
                               last |-> current_key, kept |-> FALSE])
    /\ pc' = "for_neighbors"
    /\ UNCHANGED <<outerVars, segments, point_coords, adjacency,
                   visited_edges, keys_left, start_key, next_idx, polygon_keys,
                   current_key, polygons, images>>

\* The same traversal as one function of the order in which the outer for
\* yields the keys.

\* "loop { ... }": the walk from cur, up to its break
RECURSIVE WalkFrom(_, _, _, _, _)
WalkFrom(adj, visited, keys_before, cur, start) ==
    LET keys == Append(keys_before, cur)
        i    == FirstStep(keys, visited, cur, adj[cur])
    IN  IF i = 0 THEN [visited |-> visited, keys |-> keys, cur |-> cur]
        ELSE LET nb == adj[cur][i]
                 v2 == visited \cup {<<cur, nb>>}
             IN  IF nb = start THEN [visited |-> v2, keys |-> keys, cur |-> nb]
                 ELSE WalkFrom(adj, v2, keys, nb, start)

\* "for &next_key in &adjacency[&start_key] { ... }" from index i
RECURSIVE ForNeighbors(_, _, _, _, _)
ForNeighbors(adj, coords, st, start, i) ==
    IF i > Len(adj[start]) THEN st
    ELSE IF EdgeVisited(st.visited, start, adj[start][i])
         THEN ForNeighbors(adj, coords, st, start, i + 1)
    ELSE LET w == WalkFrom(adj, st.visited \cup {<<start, adj[start][i]>>},
                           <<start>>, adj[start][i], start)
         IN  ForNeighbors(adj, coords,
                [visited  |-> w.visited,
                 polygons |-> IF KeepsWalk(w.keys, w.cur, start)
                              THEN Append(st.polygons,
                                          [n \in 1..Len(w.keys) |-> coords[w.keys[n]]])
                              ELSE st.polygons],
                start, i + 1)

\* "for &start_key in adjacency.keys() { ... }" with the keys yielded as order
RECURSIVE ForKeys(_, _, _, _, _)
ForKeys(adj, coords, st, order, k) ==
    IF k > Len(order) THEN st
    ELSE ForKeys(adj, coords, ForNeighbors(adj, coords, st, order[k], 1), order, k + 1)

assemble_polygons_in_order(segs, order) ==
    ForKeys(BuildAdjacencyMap(segs, 1, EmptyMap), BuildCoords(segs, 1, EmptyMap),
            [visited |-> {}, polygons |-> <<>>], order, 1).polygons

Assemble ==
    \/ BuildAdjacency \/ NextStartKey \/ AssembleReturn \/ NeighborsExhausted
    \/ SkipVisitedEdge \/ StartWalk \/ WalkStep \/ KeepPolygon \/ DiscardChain

---------------------------------------------------------------------------
(* Plane schedule and per-plane image emission: generate_slice_images *)

NoKey == <<0, 0>>

\* assemble_polygons has returned and the closure is done with its result:
\* the locals of the call are dropped
DropAssembler ==
    /\ point_coords' = EmptyMap
    /\ adjacency' = EmptyMap
    /\ visited_edges' = {}
    /\ keys_left' = {}
    /\ start_key' = NoKey
    /\ next_idx' = 1
    /\ polygon_keys' = <<>>
    /\ current_key' = NoKey
    /\ polygons' = <<>>
    /\ walks' = <<>>

\* all vertex z coordinates: "tri.vertices.iter().map(|v| v[2] as f64)"
ZCoords(tris) == {tris[i][j][3] : i \in DOMAIN tris, j \in 1..3}

\* fold(f64::INFINITY, f64::min) and fold(f64::NEG_INFINITY, f64::max)
FoldMin(S) == IF S = {} THEN INFINITY ELSE CHOOSE m \in S : \A x \in S : m <= x

FoldMax(S) == IF S = {} THEN -INFINITY ELSE CHOOSE m \in S : \A x \in S : m >= x

\* both folds started from 0.0
z_range_from_zero(tris) == <<FoldMin(ZCoords(tris) \cup {0}), FoldMax(ZCoords(tris) \cup {0})>>

z_range(tris) == <<FoldMin(ZCoords(tris)), FoldMax(ZCoords(tris))>>

\* round(v * ppm + pixel / 2) with ppm = pixel / physical, physical # 0
ImageCoord(v, pixel, physical) ==
    RoundDiv(2 * v * pixel + pixel * physical, 2 * physical)

\* the scale of both axes is the smaller of the two: ppm_x.min(ppm_y)
model_to_image_coords_min_ppm(slicer, p) ==
    IF slicer.pixel_x * slicer.physical_y <= slicer.pixel_y * slicer.physical_x
    THEN <<RoundDiv(2 * p[1] * slicer.pixel_x + slicer.pixel_x * slicer.physical_x,
                    2 * slicer.physical_x),
           RoundDiv(2 * p[2] * slicer.pixel_x + slicer.pixel_y * slicer.physical_x,
                    2 * slicer.physical_x)>>
    ELSE <<RoundDiv(2 * p[1] * slicer.pixel_y + slicer.pixel_x * slicer.physical_y,
                    2 * slicer.physical_y),
           RoundDiv(2 * p[2] * slicer.pixel_y + slicer.pixel_y * slicer.physical_y,
                    2 * slicer.physical_y)>>

\* (image_x.round(), image_y.round()) with image = model * ppm + pixel / 2,
\* ppm_x for x and ppm_y for y
model_to_image_coords(slicer, p) ==
    <<ImageCoord(p[1], slicer.pixel_x, slicer.physical_x),
      ImageCoord(p[2], slicer.pixel_y, slicer.physical_y)>>

\* every mapped point is pushed
RECURSIVE ImagePointsKeepingAll(_, _, _, _)
ImagePointsKeepingAll(slicer, polygon, i, points) ==
    IF i > Len(polygon) THEN points
    ELSE ImagePointsKeepingAll(slicer, polygon, i + 1,
            Append(points, model_to_image_coords(slicer, polygon[i])))

\* "if !points.contains(&new_point) { points.push(new_point) }" over a polygon
RECURSIVE ImagePoints(_, _, _, _)
ImagePoints(slicer, polygon, i, points) ==
    IF i > Len(polygon) THEN points
    ELSE LET np == model_to_image_coords(slicer, polygon[i])
         IN  ImagePoints(slicer, polygon, i + 1,
                IF \E k \in 1..Len(points) : points[k] = np THEN points
                ELSE Append(points, np))

\* every point list is handed to draw_polygon_mut
RECURSIVE DrawnPolygonsOfAnyLength(_, _, _, _)
DrawnPolygonsOfAnyLength(slicer, polys, i, out) ==
    IF i > Len(polys) THEN out
    ELSE DrawnPolygonsOfAnyLength(slicer, polys, i + 1,
            Append(out, ImagePoints(slicer, polys[i], 1, <<>>)))

\* the point lists handed to draw_polygon_mut, in order
RECURSIVE DrawnPolygons(_, _, _, _)
DrawnPolygons(slicer, polys, i, out) ==
    IF i > Len(polys) THEN out
    ELSE LET points == ImagePoints(slicer, polys[i], 1, <<>>)
         IN  DrawnPolygons(slicer, polys, i + 1,
                IF Len(points) >= 3 THEN Append(out, points) ELSE out)

\* the pixel positions of an image of the slicer
Canvas(slicer) == (0 .. slicer.pixel_x - 1) \X (0 .. slicer.pixel_y - 1)

\* ImageBuffer::from_pixel(self.pixel_x, self.pixel_y, Luma([0u8]))
from_pixel(slicer) == [px \in Canvas(slicer) |-> 0]

\* the edge from a to b passes the row of px on the right of px
EdgeCrossesRight(a, b, px) ==
    /\ (a[2] > px[2]) # (b[2] > px[2])
    /\ IF b[2] > a[2]
       THEN (px[1] - a[1]) * (b[2] - a[2]) < (px[2] - a[2]) * (b[1] - a[1])
       ELSE (px[1] - a[1]) * (b[2] - a[2]) > (px[2] - a[2]) * (b[1] - a[1])

\* The pixels draw_polygon_mut writes for a point list: the library fills
\* the closed polygon by scan lines and draws its outline.  Here: the pixels
\* inside by the even-odd rule, and the vertices.
PolygonPixels(slicer, points) ==
    LET n == Len(points)
        crossings(px) ==
            {i \in 1..n : EdgeCrossesRight(points[i], points[(i % n) + 1], px)}
    IN  {px \in Canvas(slicer) :
            \/ Cardinality(crossings(px)) % 2 = 1
            \/ \E i \in 1..n : points[i] = px}

\* a fill that inverts the pixels it covers
draw_polygon_mut_inverting(slicer, image, points, colour) ==
    [px \in DOMAIN image |->
        IF px \in PolygonPixels(slicer, points) THEN colour - image[px] ELSE image[px]]

\* draw_polygon_mut(&mut image, &points, Luma([255u8]))
draw_polygon_mut(slicer, image, points, colour) ==
    [px \in DOMAIN image |->
        IF px \in PolygonPixels(slicer, points) THEN colour ELSE image[px]]

\* "for polygon in &polygons { ... }" over the point lists with 3 points or more
RECURSIVE DrawLoops(_, _, _, _)
DrawLoops(slicer, drawn, i, image) ==
    IF i > Len(drawn) THEN image
    ELSE DrawLoops(slicer, drawn, i + 1, draw_polygon_mut(slicer, image, drawn[i], 255))

\* the image of a plane: what the closure builds from the plane's polygons
RasterizePlane(slicer, polys) ==
    LET drawn == DrawnPolygons(slicer, polys, 1, <<>>)
    IN  [drawn |-> drawn, pixels |-> DrawLoops(slicer, drawn, 1, from_pixel(slicer))]

\* the order in which collect() receives the images of the planes
PushImageFront(imgs, img) == <<img>> \o imgs

PushImage(imgs, img) == Append(imgs, img)

\* the segments of the plane of a filter_map iteration, taken at another height
SegmentsOfPlaneAbove(tris, pz) == collect_intersection_segments(tris, pz + epsilon + 1)

SegmentsOfPlane(tris, pz) == collect_intersection_segments(tris, pz)

\* "if polygons.is_empty() { return None; }"
NoImageNever(polys) == FALSE

NoImage(polys) == polys = <<>>

\* let (min_z, max_z) = CPUSlicer::z_range(triangles); let mut z = min_z
ZRange ==
    /\ pc = "start"
    /\ min_z' = z_range(triangles)[1]
    /\ max_z' = z_range(triangles)[2]
    /\ z' = min_z'
    /\ slice_z_values' = <<>>
    /\ pc' = "schedule"
    /\ UNCHANGED <<self, triangles, plane_idx, plane_z, plane_log,
                   intersection_points, segments, assemblerVars, images>>

\* one iteration of "while z <= max_z"
ScheduleStep ==
    /\ pc = "schedule"
    /\ z <= max_z
    /\ Len(slice_z_values) < MaxPlanes
    /\ slice_z_values' = Append(slice_z_values, z)
    /\ z' = FAdd(z, self.slice_thickness)
    /\ UNCHANGED <<pc, self, triangles, min_z, max_z, plane_idx, plane_z, plane_log,
                   intersection_points, segments, assemblerVars, images>>

\* the loop ends: slice_z_values.into_iter() starts
ScheduleDone ==
    /\ pc = "schedule"
    /\ ~(z <= max_z)
    /\ plane_idx' = 1
    /\ pc' = "planes"
    /\ UNCHANGED <<self, triangles, min_z, max_z, z, slice_z_values, plane_z,
                   plane_log, intersection_points, segments, assemblerVars, images>>

\* the closure on a plane with no segment: return None
SkipEmptyPlane ==
    /\ pc = "planes"
    /\ plane_idx <= Len(slice_z_values)
    /\ SegmentsOfPlane(triangles, slice_z_values[plane_idx]) = <<>>
    /\ plane_z' = slice_z_values[plane_idx]
    /\ segments' = <<>>
    /\ plane_log' = Append(plane_log, [idx |-> plane_idx, segs |-> 0, polys |-> 0])
    /\ plane_idx' = plane_idx + 1
    /\ UNCHANGED <<pc, self, triangles, min_z, max_z, z, slice_z_values,
                   intersection_points, assemblerVars, images>>

\* the closure on a plane with segments: assemble_polygons is called
CollectPlane ==
    /\ pc = "planes"
    /\ plane_idx <= Len(slice_z_values)
    /\ SegmentsOfPlane(triangles, slice_z_values[plane_idx]) # <<>>
    /\ plane_z' = slice_z_values[plane_idx]
    /\ segments' = SegmentsOfPlane(triangles, slice_z_values[plane_idx])
    /\ pc' = "assemble"
    /\ UNCHANGED <<self, triangles, min_z, max_z, z, slice_z_values, plane_idx,
                   plane_log, intersection_points, assemblerVars, images>>

\* assemble_polygons returned no polygon: return None
SkipNoPolygons ==
    /\ pc = "assembled"
    /\ NoImage(polygons)
    /\ plane_log' = Append(plane_log,
                           [idx |-> plane_idx, segs |-> Len(segments), polys |-> 0])
    /\ plane_idx' = plane_idx + 1
    /\ DropAssembler
    /\ pc' = "planes"
    /\ UNCHANGED <<self, triangles, min_z, max_z, z, slice_z_values, plane_z,
                   intersection_points, segments, images>>

\* the image of the plane is created, drawn into and returned: Some(image)
EmitImage ==
    /\ pc = "assembled"
    /\ ~NoImage(polygons)
    /\ images' = PushImage(images,
                    [idx |-> plane_idx, plane |-> plane_z,
                     drawn |-> RasterizePlane(self, polygons).drawn,
                     pixels |-> RasterizePlane(self, polygons).pixels])
    /\ plane_log' = Append(plane_log,
                           [idx |-> plane_idx, segs |-> Len(segments),
                            polys |-> Len(polygons)])
    /\ plane_idx' = plane_idx + 1
    /\ DropAssembler
    /\ pc' = "planes"
    /\ UNCHANGED <<self, triangles, min_z, max_z, z, slice_z_values, plane_z,
                   intersection_points, segments>>

\* every plane was mapped: Ok(images)
ReturnImages ==
    /\ pc = "planes"
    /\ plane_idx > Len(slice_z_values)
    /\ pc' = "done"
    /\ UNCHANGED <<self, triangles, min_z, max_z, z, slice_z_values, plane_idx,
                   plane_z, plane_log, intersection_points, segments,
                   assemblerVars, images>>

---------------------------------------------------------------------------
(* The intersector and the collector applied to drawn inputs *)

IntersectTriangle ==
    /\ pc = "intersect"
    /\ intersection_points' = intersect_triangle_with_plane(triangles[1], plane_z)
    /\ pc' = "collect"
    /\ UNCHANGED <<self, triangles, min_z, max_z, z, slice_z_values, plane_idx,
                   plane_z, plane_log, segments, assemblerVars, images>>

CollectSegments ==
    /\ pc = "collect"
    /\ segments' = collect_intersection_segments(triangles, plane_z)
    /\ pc' = "collected"
    /\ UNCHANGED <<self, triangles, min_z, max_z, z, slice_z_values, plane_idx,
                   plane_z, plane_log, intersection_points, assemblerVars, images>>

---------------------------------------------------------------------------
(* The rasterizer applied to drawn polygon lists *)

\* lines 143-161 of the closure on the polygons of one plane
Rasterize ==
    /\ pc = "raster"
    /\ images' = <<[idx |-> 1, plane |-> plane_z,
                    drawn |-> RasterizePlane(self, polygons).drawn,
                    pixels |-> RasterizePlane(self, polygons).pixels]>>
    /\ pc' = "rastered"
    /\ UNCHANGED <<self, triangles, min_z, max_z, z, slice_z_values, plane_idx,
                   plane_z, plane_log, intersection_points, segments,
                   point_coords, adjacency, visited_edges, keys_left, start_key,
                   next_idx, polygon_keys, current_key, polygons, walks>>

---------------------------------------------------------------------------
(* Inputs *)

InitAssembler ==
    /\ point_coords = EmptyMap
    /\ adjacency = EmptyMap
    /\ visited_edges = {}
    /\ keys_left = {}
    /\ start_key = NoKey
    /\ next_idx = 1
    /\ polygon_keys = <<>>
    /\ current_key = NoKey
    /\ polygons = <<>>
    /\ walks = <<>>

InitSchedule ==
    /\ min_z = 0
    /\ max_z = 0
    /\ z = 0
    /\ slice_z_values = <<>>
    /\ plane_idx = 1
    /\ plane_log = <<>>
    /\ images = <<>>

\* CPUSlicer::new(x, y, slice_thickness, physical_x, physical_y)
new(x, y, slice_thickness, physical_x, physical_y) ==
    [pixel_x |-> x, pixel_y |-> y, slice_thickness |-> slice_thickness,
     physical_x |-> physical_x, physical_y |-> physical_y]

Thicknesses == {301, 400, 500}

Slicers == {new(8, 8, t, 2048, 2048) : t \in Thicknesses}

\* a tetrahedron of height h on the plane z = 0, and parts of it
Tetrahedron(h) ==
    LET A == <<-512, -512, 0>>
        B == <<512, -512, 0>>
        C == <<-512, 512, 0>>
        D == <<-512, -512, h>>
    IN  <<<<A, B, C>>, <<A, B, D>>, <<B, C, D>>, <<C, A, D>>>>

Heights == {1600, 1804}

\* a single triangle beside the tetrahedron, of height h
Fin(h) == <<<<<<1024, 0, 0>>, <<1536, 0, 0>>, <<1024, 0, h>>>>>>

Meshes ==
    UNION {{Tetrahedron(h),                     \* closed
            SubSeq(Tetrahedron(h), 2, 3),       \* two side faces: an open chain
            SubSeq(Tetrahedron(h), 2, 2),       \* a single triangle
            Tetrahedron(1600) \o Fin(h)}          \* a closed solid and an open chain
           : h \in Heights}

\* configurations CPUSlicer::new accepts as well: a slice thickness of zero
\* or below, a physical size of zero or below
BadThicknessSlicers == {new(8, 8, 0, 2048, 2048), new(8, 8, -400, 2048, 2048)}

ZeroSizeSlicer == new(8, 8, 500, 0, 2048)

NegativeSizeSlicer == new(8, 8, 500, -2048, 2048)

\* no triangle at all; a mesh without any closed loop
NoTriangles == <<>>

OpenMesh == SubSeq(Tetrahedron(1600), 2, 2)

\* further runs: empty geometry, and the configurations above.  With a
\* physical size of zero only meshes that give no polygon are followed.
EdgeRuns ==
    (Slicers \X {NoTriangles})
    \cup (BadThicknessSlicers \X {NoTriangles, OpenMesh, Tetrahedron(1600)})
    \cup ({ZeroSizeSlicer} \X {NoTriangles, OpenMesh})
    \cup ({NegativeSizeSlicer} \X {NoTriangles, Tetrahedron(1600)})

InitSlice ==
    /\ pc = "start"
    /\ \/ self \in Slicers /\ triangles \in Meshes
       \/ \E r \in EdgeRuns : self = r[1] /\ triangles = r[2]
    /\ \A zc \in ZCoords(triangles) : IsFloat(zc)
    /\ plane_z = 0
    /\ intersection_points = <<>>
    /\ segments = <<>>
    /\ InitSchedule
    /\ InitAssembler

\* vertices of the triangles the intersector is applied to
ProbeVertices == {<<x, y, zc>> : x \in {0, 8, 64}, y \in {0, 48}, zc \in {-17, 0, 16, 17}}

ProbeTriangles == {<<a, b, c>> : a \in ProbeVertices, b \in ProbeVertices, c \in ProbeVertices}

ProbePlanes == {-40, 0, 40}

\* a second triangle of the list, crossing the plane z = 0
CrossingTriangle == <<<<0, 0, -32>>, <<64, 0, 32>>, <<0, 64, 32>>>>

InitIntersect ==
    /\ pc = "intersect"
    /\ self = new(8, 8, 400, 2048, 2048)
    /\ \E t \in ProbeTriangles : triangles \in {<<t>>, <<t, CrossingTriangle>>}
    /\ plane_z \in ProbePlanes
    /\ intersection_points = <<>>
    /\ segments = <<>>
    /\ InitSchedule
    /\ InitAssembler

\* Endpoints of the segments the assembler is applied to.  (8,8) and (20,20)
\* share the key (1,1) and are at least epsilon apart; (0,0) is closer than
\* epsilon to (8,8), in x and in y, and has another key.
AssemblePoints == {<<0, 0, 0>>, <<8, 8, 0>>, <<20, 20, 0>>, <<0, 32, 0>>}

\* collect_intersection_segments yields two points that dedup_by kept apart.
\* adjacency does not depend on a segment's orientation, point_coords only
\* when two points share a key: one orientation per pair, both for such a pair.
AssembleSegments ==
    {<<a, b>> : a \in AssemblePoints, b \in AssemblePoints} \cap
    {sg \in AssemblePoints \X AssemblePoints :
        /\ ~MetricDistanceBelowEpsilon(sg[1], sg[2])
        /\ PointLess(sg[1], sg[2]) \/ point_to_key(sg[1]) = point_to_key(sg[2])}

\* larger graphs: a triangle with a tail, two triangles sharing a key (a
\* figure of eight), a doubled triangle, a square with a diagonal
KeyPoint(i, j) == <<32 * i, 32 * j, 0>>

ShapeLists ==
    LET P(i, j) == KeyPoint(i, j)
    IN  {<<<<P(0,0), P(1,0)>>, <<P(1,0), P(0,1)>>, <<P(0,1), P(0,0)>>, <<P(1,0), P(2,0)>>>>,
         <<<<P(1,0), P(2,0)>>, <<P(0,0), P(1,0)>>, <<P(1,0), P(0,1)>>, <<P(0,1), P(0,0)>>>>,
         <<<<P(0,0), P(1,0)>>, <<P(1,0), P(0,1)>>, <<P(0,1), P(0,0)>>,
           <<P(0,0), P(2,1)>>, <<P(2,1), P(2,2)>>, <<P(2,2), P(0,0)>>>>,
         <<<<P(0,0), P(1,0)>>, <<P(0,0), P(2,1)>>, <<P(1,0), P(0,1)>>,
           <<P(2,1), P(2,2)>>, <<P(0,1), P(0,0)>>, <<P(2,2), P(0,0)>>>>,
         <<<<P(0,0), P(1,0)>>, <<P(1,0), P(0,1)>>, <<P(0,1), P(0,0)>>,
           <<P(0,0), P(1,0)>>, <<P(1,0), P(0,1)>>, <<P(0,1), P(0,0)>>>>,
         <<<<P(0,0), P(1,0)>>, <<P(1,0), P(1,1)>>, <<P(1,1), P(0,1)>>,
           <<P(0,1), P(0,0)>>, <<P(0,0), P(1,1)>>>>}


\* Unions of simple cycles.  Cycle c has the keys (2j, 2c), j < n; the edge
\* j -> j+1 starts at the raw point (32j, 32c) and ends at the raw point
\* (32(j+1) + 5, 32c + 5) of the next key (j+1 taken modulo n).
CycleEdge(c, n, j, flip) ==
    LET a == <<32 * j, 32 * c, 0>>
        b == <<32 * ((j + 1) % n) + 5, 32 * c + 5, 0>>
    IN  IF flip THEN <<b, a>> ELSE <<a, b>>

CycleEdges(c, n, flips) ==
    [j \in 1..n |-> CycleEdge(c, n, j - 1, flips = "all" \/ (flips = "odd" /\ j % 2 = 1))]

Reverse(s) == [i \in 1..Len(s) |-> s[Len(s) + 1 - i]]

\* the odd positions of s, then the even ones
Unshuffle(s) ==
    LET n == Len(s)
        h == (n + 1) \div 2
    IN  [i \in 1..n |-> IF i <= h THEN s[2 * i - 1] ELSE s[2 * (i - h)]]

Reorder(s, order) ==
    IF order = "reverse" THEN Reverse(s)
    ELSE IF order = "unshuffle" THEN Unshuffle(s)
    ELSE s

CycleLists ==
    LET one == {CycleEdges(1, n, f) : n \in 3..MaxKeys, f \in {"none", "all", "odd"}}
        two == {CycleEdges(1, n, f) \o CycleEdges(2, m, "none") :
                    n \in 3..MaxKeys, m \in 3..MaxKeys, f \in {"none", "odd"}}
    IN  {Reorder(s, o) : s \in {l \in one \cup two : Len(l) <= MaxKeys},
                         o \in {"same", "reverse", "unshuffle"}}

SegmentLists ==
    UNION {[1..n -> AssembleSegments] : n \in 1..MaxSegs} \cup ShapeLists \cup CycleLists

InitAssemble ==
    /\ pc = "assemble"
    /\ self = new(8, 8, 400, 256, 256)
    /\ triangles = <<>>
    /\ plane_z = 0
    /\ intersection_points = <<>>
    /\ segments \in SegmentLists
    /\ InitSchedule
    /\ InitAssembler

\* canvases of 8 x 8 and 8 x 4 pixels for 2048 x 2048 and 2048 x 4096 units
RasterSlicers ==
    {new(8, 8, 400, 2048, 2048), new(8, 8, 400, 2048, 4096), new(8, 4, 400, 2048, 2048)}

\* the loops of a plane: a large square, a square inside it, a triangle, a
\* loop smaller than a pixel inside the squares and one beside them, and a
\* loop that holds a point twice (a walk through a key that is its own neighbour)
Loops ==
    {<<<<-512, -512, 0>>, <<512, -512, 0>>, <<512, -512, 0>>, <<-512, 512, 0>>>>} \cup
    {<<<<-768, -768, 0>>, <<768, -768, 0>>, <<768, 768, 0>>, <<-768, 768, 0>>>>,
     <<<<-256, -256, 0>>, <<256, -256, 0>>, <<256, 256, 0>>, <<-256, 256, 0>>>>,
     <<<<-512, -512, 0>>, <<512, -512, 0>>, <<-512, 512, 0>>>>,
     <<<<0, 0, 0>>, <<64, 0, 0>>, <<0, 64, 0>>>>,
     <<<<-960, -960, 0>>, <<-900, -960, 0>>, <<-960, -900, 0>>>>}

PolygonLists == UNION {[1..n -> Loops] : n \in 1..MaxLoops}

InitRaster ==
    /\ pc = "raster"
    /\ self \in RasterSlicers
    /\ triangles = <<>>
    /\ plane_z = 0
    /\ intersection_points = <<>>
    /\ segments = <<>>
    /\ InitSchedule
    /\ point_coords = EmptyMap
    /\ adjacency = EmptyMap
    /\ visited_edges = {}
    /\ keys_left = {}
    /\ start_key = NoKey
    /\ next_idx = 1
    /\ polygon_keys = <<>>
    /\ current_key = NoKey
    /\ polygons \in PolygonLists
    /\ walks = <<>>

---------------------------------------------------------------------------
(* Specifications *)

\* generate_slice_images on a mesh
Init == InitSlice

Next ==
    \/ ZRange \/ ScheduleStep \/ ScheduleDone
    \/ SkipEmptyPlane \/ CollectPlane
    \/ BuildAdjacency \/ NextStartKey \/ AssembleReturn \/ NeighborsExhausted
    \/ SkipVisitedEdge \/ StartWalk \/ WalkStep \/ KeepPolygon \/ DiscardChain
    \/ SkipNoPolygons \/ EmitImage \/ ReturnImages

Spec == Init /\ [][Next]_vars

\* intersect_triangle_with_plane and collect_intersection_segments on drawn triangles
NextIntersect == IntersectTriangle \/ CollectSegments

SpecIntersect == InitIntersect /\ [][NextIntersect]_vars

\* assemble_polygons on drawn segment lists
SpecAssemble == InitAssemble /\ [][Assemble]_vars

\* assemble_polygons runs on: no step of it is put off forever
FairSpecAssemble == SpecAssemble /\ WF_vars(Assemble)

\* the rasterizer on drawn polygon lists
SpecRaster == InitRaster /\ [][Rasterize]_vars

---------------------------------------------------------------------------
(* Properties *)

Range(s) == {s[i] : i \in DOMAIN s}

\* the schedule is complete: the loop "while z <= max_z" has ended
ScheduleBuilt == pc \notin {"start", "schedule"}

\* min_z, min_z + t, min_z + 2t, ... while the value is <= max_z
ExactSchedule(mn, mx, t) == [i \in 1..((mx - mn) \div t + 1) |-> mn + (i - 1) * t]

\* some triangle contributes a segment at height h
HasSegment(h) ==
    \E i \in DOMAIN triangles : Len(intersect_triangle_with_plane(triangles[i], h)) = 2

\* the images produced from the plane of index i of the schedule
ImagesOfPlane(i) == {k \in DOMAIN images : images[k].idx = i}

\* C1: for non-empty geometry and t > 0 the plane schedule is exactly
\* min_z, min_z + t, min_z + 2t, ... up to max_z: floor((max_z - min_z) / t) + 1 entries.
C1_ScheduleIsExact ==
    (ScheduleBuilt /\ triangles # <<>> /\ self.slice_thickness > 0)
        => slice_z_values = ExactSchedule(min_z, max_z, self.slice_thickness)

\* C2, as stated: the output holds exactly one image for every scheduled plane
\* at which at least one triangle contributes a segment.
C2_ImageForEveryPlaneWithSegments ==
    pc = "done" =>
        \A i \in DOMAIN slice_z_values :
            HasSegment(slice_z_values[i]) => Cardinality(ImagesOfPlane(i)) = 1

\* C2, amended: the output holds exactly one image for every scheduled plane at
\* which a triangle contributes a segment and assemble_polygons returns at
\* least one loop, and no image for any other plane.
C2_ImageForEveryPlaneWithPolygons ==
    pc = "done" =>
        /\ Len(plane_log) = Len(slice_z_values)
        /\ \A i \in DOMAIN slice_z_values :
              /\ plane_log[i].idx = i
              /\ plane_log[i].polys > 0 => HasSegment(slice_z_values[i])
              /\ Cardinality(ImagesOfPlane(i)) = IF plane_log[i].polys > 0 THEN 1 ELSE 0

\* a run that ended with an image for a plane with loops and none for a plane
\* that had segments and no loop
C2_Witness ==
    /\ pc = "done"
    /\ \E i \in DOMAIN plane_log : plane_log[i].polys > 0 /\ ImagesOfPlane(i) # {}
    /\ \E i \in DOMAIN plane_log :
          plane_log[i].segs > 0 /\ plane_log[i].polys = 0 /\ ImagesOfPlane(i) = {}

\* C3: no image is ever emitted for a scheduled plane at which no triangle
\* yields an intersection segment.
C3_NoImageWithoutSegments ==
    \A k \in DOMAIN images :
        /\ images[k].idx \in DOMAIN slice_z_values
        /\ HasSegment(slice_z_values[images[k].idx])

\* a finished run with images in which a plane without segments was skipped
C3_Witness ==
    /\ pc = "done"
    /\ images # <<>>
    /\ \E i \in DOMAIN slice_z_values :
          ~HasSegment(slice_z_values[i]) /\ ImagesOfPlane(i) = {}

\* C4: the images are in strictly ascending order of plane height and form a
\* subsequence of the schedule, at most one image per scheduled height.
C4_ImagesAscending ==
    /\ \A k \in DOMAIN images :
          /\ images[k].idx \in DOMAIN slice_z_values
          /\ images[k].plane = slice_z_values[images[k].idx]
    /\ \A k, l \in DOMAIN images :
          k < l => images[k].idx < images[l].idx /\ images[k].plane < images[l].plane

\* a finished run with at least three images and a skipped plane between two of them
C4_Witness ==
    /\ pc = "done"
    /\ Len(images) >= 3
    /\ Len(images) < Len(slice_z_values)

\* the keys of a returned loop
PolygonKeySeq(polygon) == [i \in DOMAIN polygon |-> point_to_key(polygon[i])]

\* the segment graph is a disjoint union of simple cycles
IsCycleUnion ==
    /\ adjacency # EmptyMap
    /\ \A k \in DOMAIN adjacency :
          /\ Len(adjacency[k]) = 2
          /\ adjacency[k][1] # adjacency[k][2]
          /\ k \notin Range(adjacency[k])

\* C5: on a disjoint union of simple cycles assemble_polygons returns exactly
\* one loop per cycle, holding every key of its cycle exactly once, whatever
\* order the keys are iterated in.
C5_OneLoopPerCycle ==
    (pc = "assembled" /\ IsCycleUnion) =>
        /\ \A k \in DOMAIN adjacency :
              Cardinality({<<n, i>> \in {<<n, i>> \in (DOMAIN polygons) \X (1..Len(segments)) :
                                            i \in DOMAIN polygons[n]} :
                              PolygonKeySeq(polygons[n])[i] = k}) = 1
        /\ \A n \in DOMAIN polygons :
              \A k \in Range(PolygonKeySeq(polygons[n])) :
                  Range(adjacency[k]) \subseteq Range(PolygonKeySeq(polygons[n]))

\* two cycles were assembled into two loops
C5_Witness ==
    /\ pc = "assembled"
    /\ IsCycleUnion
    /\ Len(polygons) = 2
    /\ Len(polygons[1]) + Len(polygons[2]) = MaxKeys

KeptWalks == SelectSeq(walks, LAMBDA w : w.kept)

\* C6: every returned polygon comes from a walk that returned to its start key
\* and has at least 3 distinct keys; an open chain contributes no polygon and
\* the remaining walks still run (every edge ends up visited).
C6_OnlyClosedLoopsKept ==
    /\ Len(polygons) = Len(KeptWalks)
    /\ \A n \in DOMAIN polygons :
          /\ KeptWalks[n].last = KeptWalks[n].start
          /\ KeptWalks[n].keys[1] = KeptWalks[n].start
          /\ Cardinality(Range(KeptWalks[n].keys)) >= 3
          /\ polygons[n] = [i \in DOMAIN KeptWalks[n].keys |-> point_coords[KeptWalks[n].keys[i]]]
    /\ \A n \in DOMAIN walks : walks[n].last # walks[n].start => ~walks[n].kept
    /\ pc = "assembled" =>
          \A k \in DOMAIN adjacency :
              \A i \in DOMAIN adjacency[k] : EdgeVisited(visited_edges, k, adjacency[k][i])

\* an open chain was discarded and a later walk of the same plane was kept
C6_Witness ==
    /\ pc = "assembled"
    /\ \E m, n \in DOMAIN walks :
          m < n /\ ~walks[m].kept /\ walks[m].last # walks[m].start /\ walks[n].kept

\* the intersector has been applied to triangles[1] and plane_z
Intersected == pc \in {"collect", "collected"}

StrictlyAbove(v) == FSub(v[3], plane_z) > epsilon

StrictlyBelow(v) == FSub(v[3], plane_z) < -epsilon

OnPlane(v) == ~StrictlyAbove(v) /\ ~StrictlyBelow(v)

\* the triangle has a non-zero area: (b - a) x (c - a) is not the null vector
NonDegenerate(t) ==
    LET u == [c \in 1..3 |-> t[2][c] - t[1][c]]
        v == [c \in 1..3 |-> t[3][c] - t[1][c]]
    IN  <<u[2] * v[3] - u[3] * v[2], u[3] * v[1] - u[1] * v[3],
          u[1] * v[2] - u[2] * v[1]>> # <<0, 0, 0>>

\* C7: intersect_triangle_with_plane returns 0, 2 or more than 2 points, never
\* exactly 1 (stated here for the triangles of non-zero area only).
C7_NeverOnePoint ==
    (Intersected /\ NonDegenerate(triangles[1])) => Len(intersection_points) # 1

\* C8: an edge with both endpoints on-plane, the third vertex strictly on one
\* side: both endpoints are emitted and the result is that 2-point segment
\* (stated here for the triangles of non-zero area only).
C8_InPlaneEdgeEmitted ==
    (Intersected /\ NonDegenerate(triangles[1])) =>
        \A i \in 1..3 :
            LET p1 == triangles[1][i]
                p2 == triangles[1][(i % 3) + 1]
                p3 == triangles[1][((i + 1) % 3) + 1]
            IN  (/\ OnPlane(p1) /\ OnPlane(p2)
                 /\ StrictlyAbove(p3) \/ StrictlyBelow(p3)
                 /\ ~MetricDistanceBelowEpsilon(p1, p2))
                    => Range(intersection_points) = {p1, p2}

\* C9: three vertices strictly on one side give no point; at a height strictly
\* outside [min_z, max_z] collect_intersection_segments returns no segment.
C9_NothingOutsideExtent ==
    /\ (/\ Intersected
        /\ \/ \A i \in 1..3 : StrictlyAbove(triangles[1][i])
           \/ \A i \in 1..3 : StrictlyBelow(triangles[1][i]))
          => intersection_points = <<>>
    /\ (/\ pc = "collected"
        /\ plane_z < z_range(triangles)[1] \/ plane_z > z_range(triangles)[2])
          => segments = <<>>

\* two triangles, one of which crosses z = 0, collected at a height above both
C9_Witness ==
    /\ pc = "collected"
    /\ Len(triangles) = 2
    /\ plane_z > z_range(triangles)[2]
    /\ \A i \in 1..3 : StrictlyBelow(triangles[1][i])
    /\ segments = <<>>

\* the endpoints of the segments handed to assemble_polygons
Endpoints == UNION {{segments[i][1], segments[i][2]} : i \in DOMAIN segments}

\* the raw x and y of p and q differ by less than epsilon
CloserThanEpsilon(p, q) == Abs(p[1] - q[1]) < epsilon /\ Abs(p[2] - q[2]) < epsilon

\* assemble_polygons has just keyed every endpoint while building its maps
MapsBuilt == pc = "for_keys" /\ keys_left = DOMAIN adjacency /\ visited_edges = {}

\* C10: two points get the same key whenever their raw x and y differ by less
\* than epsilon, and different keys otherwise.
C10_SameKeyIffCloser ==
    MapsBuilt =>
        \A p, q \in Endpoints :
            point_to_key(p) = point_to_key(q) <=> CloserThanEpsilon(p, q)

\* the rasterizer has been applied to polygons
Rastered == pc = "rastered"

\* C11: every polygon vertex is mapped with the one scale
\* ppm = min(pixel_x / physical_x, pixel_y / physical_y) on both axes, around
\* the canvas midpoint: every point handed to the fill is such an image.
C11_UniformScale ==
    Rastered =>
        \A k \in DOMAIN images[1].drawn :
            Range(images[1].drawn[k]) \subseteq
                UNION {{model_to_image_coords_min_ppm(self, polygons[n][i]) :
                            i \in DOMAIN polygons[n]} : n \in DOMAIN polygons}

\* the polygon without its n-th loop
RemoveAt(polys, n) ==
    [i \in 1..(Len(polys) - 1) |-> IF i < n THEN polys[i] ELSE polys[i + 1]]

\* the vertices of the loop map to fewer than 3 distinct pixel coordinates
FewPixelPoints(slicer, polygon) ==
    Cardinality({model_to_image_coords(slicer, polygon[i]) : i \in DOMAIN polygon}) < 3

\* C12: a loop whose vertices map to fewer than 3 distinct pixel coordinates
\* changes no pixel, and the other loops of the plane are drawn as without it.
C12_FewPointsDrawNothing ==
    Rastered =>
        \A n \in DOMAIN polygons :
            FewPixelPoints(self, polygons[n]) =>
                /\ images[1].pixels = RasterizePlane(self, RemoveAt(polygons, n)).pixels
                /\ images[1].drawn = RasterizePlane(self, RemoveAt(polygons, n)).drawn

\* a loop smaller than a pixel came before a loop that was filled
C12_Witness ==
    /\ Rastered
    /\ Len(polygons) >= 2
    /\ FewPixelPoints(self, polygons[1])
    /\ ~FewPixelPoints(self, polygons[2])
    /\ \E px \in DOMAIN images[1].pixels : images[1].pixels[px] = 255

\* C13: an emitted image has pixel_x by pixel_y pixels, each 0 or 255, and
\* the pixels at 255 are the union of the fills of the loops drawn.
C13_MaskIsUnionOfFills ==
    \A k \in DOMAIN images :
        /\ DOMAIN images[k].pixels = Canvas(self)
        /\ Cardinality(DOMAIN images[k].pixels) = self.pixel_x * self.pixel_y
        /\ \A px \in DOMAIN images[k].pixels : images[k].pixels[px] \in {0, 255}
        /\ {px \in DOMAIN images[k].pixels : images[k].pixels[px] = 255}
              = UNION {PolygonPixels(self, images[k].drawn[j]) : j \in DOMAIN images[k].drawn}

\* a loop was filled over pixels that an earlier loop of the plane had filled
C13_Witness ==
    /\ Rastered
    /\ Len(images[1].drawn) >= 2
    /\ images[1].drawn[1] # images[1].drawn[2]
    /\ PolygonPixels(self, images[1].drawn[2]) # {}
    /\ PolygonPixels(self, images[1].drawn[2]) \subseteq PolygonPixels(self, images[1].drawn[1])
    /\ \E px \in Canvas(self) : images[1].pixels[px] = 0

\* the keys of S in ascending order: one order a hash map can yield
RECURSIVE SortedKeys(_)
SortedKeys(S) ==
    IF S = {} THEN <<>>
    ELSE LET m == CHOOSE m \in S :
                    \A x \in S : m[1] < x[1] \/ (m[1] = x[1] /\ m[2] <= x[2])
         IN  <<m>> \o SortedKeys(S \ {m})

\* C14: slicing is deterministic: whatever order the assembler's hash map
\* yields its keys in, the plane gives an image exactly when it gives one with
\* the keys in ascending order, and the same pixels.
C14_SameImageInAnyKeyOrder ==
    pc = "assembled" =>
        LET other == assemble_polygons_in_order(segments, SortedKeys(DOMAIN adjacency))
        IN  /\ NoImage(polygons) = NoImage(other)
            /\ RasterizePlane(self, polygons).pixels = RasterizePlane(self, other).pixels

\* C15: with a slice thickness of zero or below generate_slice_images fails
\* before any plane is scheduled: no plane is ever scheduled and the call
\* never returns its images.
C15_BadThicknessRejected ==
    self.slice_thickness <= 0 => (slice_z_values = <<>> /\ pc # "done")

\* a pixel size or a physical size of the canvas is zero or below
BadCanvas(slicer) ==
    \/ slicer.pixel_x <= 0 \/ slicer.pixel_y <= 0
    \/ slicer.physical_x <= 0 \/ slicer.physical_y <= 0

\* C16: with a canvas pixel size or physical size of zero or below the call
\* is rejected before processing begins: the scale factors are never computed
\* and no plane is processed.
C16_BadCanvasRejected ==
    BadCanvas(self) => (pc = "start" /\ plane_log = <<>>)

\* C17: without triangles z_range gives (+infinity, -infinity), the schedule
\* loop runs no iteration and the call returns no image, for any thickness.
C17_EmptyGeometry ==
    triangles = NoTriangles =>
        /\ pc \in {"start", "schedule", "planes", "done"}
        /\ pc # "start" => (min_z = INFINITY /\ max_z = -INFINITY)
        /\ pc = "schedule" => ~(z <= max_z)
        /\ slice_z_values = <<>>
        /\ plane_log = <<>>
        /\ images = <<>>

\* the call returned without triangles, with a negative slice thickness
C17_Witness ==
    /\ pc = "done"
    /\ triangles = NoTriangles
    /\ self.slice_thickness < 0
    /\ images = <<>>

\* C19: with triangles, the first scheduled plane is min_z, no triangle gives
\* a segment there and no image comes from it; the images are fewer than the
\* scheduled planes.
C19_FirstPlaneHasNoImage ==
    triangles # NoTriangles =>
        /\ ImagesOfPlane(1) = {}
        /\ plane_log # <<>> => (plane_log[1].idx = 1 /\ plane_log[1].segs = 0)
        /\ ScheduleBuilt =>
              /\ slice_z_values # <<>>
              /\ slice_z_values[1] = min_z
              /\ ~HasSegment(slice_z_values[1])
              /\ Len(images) < Len(slice_z_values)

\* a finished run in which every plane but the first gave an image
C19_Witness ==
    /\ pc = "done"
    /\ triangles # NoTriangles
    /\ images # <<>>
    /\ Len(images) = Len(slice_z_values) - 1
    /\ ImagesOfPlane(1) = {}

\* the triangles whose intersection with the plane has exactly 2 points
TwoPointTriangles ==
    {i \in DOMAIN triangles : Len(intersect_triangle_with_plane(triangles[i], plane_z)) = 2}

\* C18: a triangle whose intersection has more than 2 points (or fewer)
\* contributes no segment and stops nothing: the segments are those of the
\* triangles with exactly 2 points, one each, in triangle order.
C18_OnlyTwoPointTrianglesContribute ==
    pc = "collected" =>
        /\ Len(segments) = Cardinality(TwoPointTriangles)
        /\ \A i \in TwoPointTriangles :
              LET ip == intersect_triangle_with_plane(triangles[i], plane_z)
              IN  segments[Cardinality({j \in TwoPointTriangles : j <= i})] = <<ip[1], ip[2]>>

\* a triangle lying in the plane, of non-zero area, gave no segment and the
\* triangle after it gave its segment
C18_Witness ==
    /\ pc = "collected"
    /\ Len(triangles) = 2
    /\ NonDegenerate(triangles[1])
    /\ \A i \in 1..3 : OnPlane(triangles[1][i])
    /\ TwoPointTriangles = {2}
    /\ Len(segments) = 1

\* C20: intersect_triangle_with_plane never returns more than 2 points, and
\* no triangle of the list takes the "more than 2 points" branch of
\* collect_intersection_segments.
C20_AtMostTwoPoints ==
    /\ Intersected => Len(intersection_points) <= 2
    /\ \A i \in DOMAIN triangles :
          Len(intersect_triangle_with_plane(triangles[i], plane_z)) <= 2

\* a vertex on the plane between a vertex above and a vertex below: the
\* vertex is pushed twice and the result has 2 points
C20_Witness ==
    /\ Intersected
    /\ NonDegenerate(triangles[1])
    /\ \E i, j, k \in 1..3 :
          /\ OnPlane(triangles[1][i])
          /\ StrictlyAbove(triangles[1][j])
          /\ StrictlyBelow(triangles[1][k])
    /\ Len(intersection_points) = 2

\* the undirected edges a finished walk traversed, in order: between the
\* consecutive keys, and back to the start key when the walk returned to it
WalkEdges(w) ==
    LET n == Len(w.keys)
    IN  [i \in 1..(IF w.last = w.keys[n] THEN n - 1 ELSE n) |->
            IF i < n THEN {w.keys[i], w.keys[i + 1]} ELSE {w.keys[n], w.last}]

\* no walk is in progress
BetweenWalks == pc \in {"for_keys", "for_neighbors", "assembled"}

\* a step that changes visited_edges adds one edge, unvisited in both directions
MarksFreshEdge ==
    /\ visited_edges' # visited_edges =>
          \E e \in visited_edges' \ visited_edges :
              /\ visited_edges' = visited_edges \cup {e}
              /\ ~EdgeVisited(visited_edges, e[1], e[2])
    /\ (pc' = "walk" \/ current_key' # current_key) => visited_edges' # visited_edges

\* an undirected edge is traversed at most once over all walks
EdgesTraversedOnce ==
    /\ \A e \in visited_edges : e[1] # e[2] => <<e[2], e[1]>> \notin visited_edges
    /\ BetweenWalks =>
          /\ \A m, n \in DOMAIN walks :
                \A i \in DOMAIN WalkEdges(walks[m]), j \in DOMAIN WalkEdges(walks[n]) :
                    WalkEdges(walks[m])[i] = WalkEdges(walks[n])[j] => (m = n /\ i = j)
          /\ {{e[1], e[2]} : e \in visited_edges}
                = UNION {Range(WalkEdges(walks[n])) : n \in DOMAIN walks}

\* C21: assemble_polygons terminates on every segment list; every step of a
\* walk marks a previously unvisited undirected edge, an undirected edge is
\* traversed at most once over all walks, and no two returned loops share one.
C21_AssemblerTerminates ==
    /\ <>(pc = "assembled")
    /\ [][MarksFreshEdge]_vars
    /\ [](EdgesTraversedOnce)
    /\ [](\A m, n \in DOMAIN KeptWalks :
            m # n => Range(WalkEdges(KeptWalks[m])) \cap Range(WalkEdges(KeptWalks[n])) = {})

\* two loops sharing a key were returned from a list with branching keys
C21_Witness ==
    /\ pc = "assembled"
    /\ \E k \in DOMAIN adjacency : Len(adjacency[k]) > 2
    /\ Len(KeptWalks) = 2
    /\ Range(KeptWalks[1].keys) \cap Range(KeptWalks[2].keys) # {}

\* C22: every point list handed to draw_polygon_mut has at least 3 points,
\* pairwise distinct, so that its first and its last point differ.
C22_FillGetsDistinctPoints ==
    \A k \in DOMAIN images :
        \A j \in DOMAIN images[k].drawn :
            LET points == images[k].drawn[j]
            IN  /\ Len(points) >= 3
                /\ \A a, b \in DOMAIN points : a # b => points[a] # points[b]
                /\ points[1] # points[Len(points)]

\* a loop holding a point twice was handed to the fill with 3 points
C22_Witness ==
    /\ Rastered
    /\ Len(polygons) = 1
    /\ Len(polygons[1]) > Cardinality(Range(polygons[1]))
    /\ Len(images[1].drawn) = 1
    /\ Len(images[1].drawn[1]) = 3

====
